---- MODULE Spec2Model ----
(***************************************************************************)
(* ChainLocks handler (src/src/llmq/quorums_chainlocks.cpp) as a state     *)
(* machine.  Every action is one critical section (or one lock-free call)  *)
(* of a handler method; the threads are the ingest threads (peer message   *)
(* dispatcher and recovered-signature callback), the validation thread and *)
(* the scheduler thread.                                                   *)
(***************************************************************************)
EXTENDS Integers, Sequences, FiniteSets, TLC

(* ------------------------------------------------------------------ *)
(* Bounds of the model                                                 *)
(* ------------------------------------------------------------------ *)

\* CLSIG / recovered-signature deliveries in one run
MaxDeliveries == 2

(* ------------------------------------------------------------------ *)
(* Block tree of the chain engine:  G <- A <- B <- C,  A <- Bp         *)
(* ------------------------------------------------------------------ *)

Blocks == {"G", "A", "B", "Bp", "C"}

\* nullptr for a CBlockIndex pointer
NullBlock == "null"

\* uint256() as a block hash
NullBlockHash == "0"

\* a block hash no header ever carries
UnknownHash == "X"

\* CBlockIndex::nHeight
nHeight(b) ==
    CASE b = "G" -> 0
      [] b = "A" -> 1
      [] b = "B" -> 2
      [] b = "Bp" -> 2
      [] b = "C" -> 3

\* CBlockIndex::pprev
pprev(b) ==
    CASE b = "G" -> NullBlock
      [] b = "A" -> "G"
      [] b = "B" -> "A"
      [] b = "Bp" -> "A"
      [] b = "C" -> "B"

\* CBlockIndex::GetBlockHash: the entry's hash is its name
GetBlockHash(b) == b

\* CBlockIndex::GetAncestor(height): nullptr outside 0..nHeight
RECURSIVE GetAncestor(_, _)
GetAncestor(b, h) ==
    IF b = NullBlock \/ h < 0 THEN NullBlock
    ELSE IF h > nHeight(b) THEN NullBlock
    ELSE IF h = nHeight(b) THEN b
    ELSE GetAncestor(pprev(b), h)

(* ------------------------------------------------------------------ *)
(* CLSIG values                                                        *)
(* ------------------------------------------------------------------ *)

\* heights a CLSIG on the wire may carry: nHeight is a signed 32-bit field,
\* so a peer can send a negative one
ClsigHeights == {-2, 1, 2, 3}

ClsigBlockHashes == (Blocks \ {"G"}) \cup {UnknownHash}

Sigs == {"s1"}

\* CChainLockSig(): nHeight{-1}, null block hash, default signature
NullClsig == [nHeight |-> -1, blockHash |-> NullBlockHash, sig |-> "none"]

Clsigs == [nHeight : ClsigHeights, blockHash : ClsigBlockHashes, sig : Sigs]

\* uint256() as a CLSIG hash / request id
NullHash == <<>>

\* ::SerializeHash(clsig): a collision-free digest of the three fields
SerializeHash(c) == <<c.nHeight, c.blockHash, c.sig>>

\* ::SerializeHash(std::make_pair(CLSIG_REQUESTID_PREFIX, nHeight))
RequestId(h) == <<"clsig", h>>

\* peers' node ids; -1 is "no peer"
Peers == {0}

NoPeer == -1

Procs == {1, 2}

(* ------------------------------------------------------------------ *)
(* State                                                               *)
(* ------------------------------------------------------------------ *)

VARIABLES
    \* best-lock registry (members of CChainLocksHandler)
    bestChainLock, bestChainLockHash, bestChainLockWithKnownBlock,
    bestChainLockBlockIndex, lastNotifyChainLockBlockIndex,
    \* seen-set: CLSIG hash -> time of first receipt
    seenChainLocks, lastCleanupTime,
    \* signer state
    lastSignedHeight, lastSignedRequestId, lastSignedMsgHash,
    tryLockChainTipScheduled,
    \* feature gate and node mode
    isEnforced, isSporkActive, fMasternodeMode, synced,
    \* chain engine: block index, failed blocks, active tip
    mapBlockIndex, failed, chainTip,
    \* clock (GetTimeMillis), and whether the periodic task is due
    now, tickDue,
    \* ingest threads: position, the CLSIG in hand, its sender
    pc, clsigOf, fromOf, delivered,
    \* scheduler thread: position, running task, queued zero-delay tasks, locals
    spc, task, queue, locals,
    \* what the collaborators saw: RelayInv, Misbehaving, VerifyRecoveredSig
    \* (with its result), ProcessNewChainLock calls per hash, commits to
    \* bestChainLock, seen-set evictions, NotifyChainLock, AsyncSignIfMember,
    \* DoInvalidateBlock, ActivateBestChain, and a failed assert
    relayed, misbehaving, verifyLog, calls, commits, evictions, notified,
    signCalls, invalidated, activations, aborted,
    \* history of a late header: "bound" once AcceptedBlockHeader has bound the
    \* registry to the block of the accepted CLSIG, "tick" while the periodic
    \* task that started in that state runs, "none" otherwise
    lateHeader,
    \* block-tx tracker: txid -> first-seen time (seconds), block hash -> txids,
    \* and the GetBlockTxs call under way: its position, its argument and ret
    txFirstSeenTime, blockTxs, gbt,
    \* lock level: the locks each thread holds in the order it took them, the
    \* control paths (lock and field events) left of the function it is in,
    \* and the functions it still has to call
    held, prog, todo

regVars == <<bestChainLock, bestChainLockHash, bestChainLockWithKnownBlock,
             bestChainLockBlockIndex, lastNotifyChainLockBlockIndex>>

bestVars == <<bestChainLock, bestChainLockHash, bestChainLockWithKnownBlock,
              bestChainLockBlockIndex>>

seenVars == <<seenChainLocks, lastCleanupTime>>

signVars == <<lastSignedHeight, lastSignedRequestId, lastSignedMsgHash>>

envVars == <<isEnforced, isSporkActive, fMasternodeMode, synced>>

chainVars == <<mapBlockIndex, failed, chainTip>>

timeVars == <<now, tickDue>>

txVars == <<txFirstSeenTime, blockTxs, gbt>>

lockVars == <<held, prog, todo>>

procVars == <<pc, clsigOf, fromOf, delivered>>

schedVars == <<spc, task, queue, locals>>

restObs == <<relayed, misbehaving, verifyLog, commits, evictions, notified,
             signCalls, invalidated, activations>>

obsVars == <<restObs, calls>>

\* the handler's data and what the collaborators saw
dataVars == <<regVars, seenVars, signVars, tryLockChainTipScheduled, envVars,
              chainVars, timeVars, procVars, schedVars, obsVars, aborted,
              lateHeader, txVars>>

vars == <<dataVars, lockVars>>

\* the calling contexts: peer-message dispatcher, validation signals,
\* mempool signals and callers, scheduler thread, and the signing manager's
\* thread, which calls the listener registered in Start() (line 45)
Threads == {"net", "validation", "mempool", "scheduler", "sigs"}

(* ------------------------------------------------------------------ *)
(* Helpers                                                             *)
(* ------------------------------------------------------------------ *)

\* a call counter keyed by hash: one more call for key k
CountUp(f, k) ==
    IF k \in DOMAIN f THEN [f EXCEPT ![k] = @ + 1] ELSE f @@ (k :> 1)

CountOf(f, k) == IF k \in DOMAIN f THEN f[k] ELSE 0

\* a call counter that stops at 2 ("twice or more")
CountUpTo2(f, k) ==
    IF k \in DOMAIN f THEN [f EXCEPT ![k] = IF @ < 2 THEN @ + 1 ELSE @]
    ELSE f @@ (k :> 1)

\* the empty counter / map
Empty == [k \in {} |-> 0]

\* GetTimeMillis() at start-up, and the clock jumps the model takes
StartTime == 100000000

\* quorums_chainlocks.h
CLEANUP_INTERVAL == 30000

\* quorums_chainlocks.h
CLEANUP_SEEN_TIMEOUT == 3600000

\* the period of the task Start() registers with scheduleEvery
TickPeriod == 5000

\* the instants the model observes the clock at: three runs of the periodic
\* task one period apart, and one an hour after the start
Times == {StartTime, StartTime + TickPeriod, StartTime + 2 * TickPeriod,
          StartTime + CLEANUP_SEEN_TIMEOUT}

\* locals of the scheduler thread while no task runs
NoLocals == [pindex |-> NullBlock, activateNeeded |-> FALSE, tip |-> NullBlock]

\* no GetBlockTxs call under way, none returned yet
NoCall == [pc |-> "idle", hash |-> NullBlockHash, kind |-> "none", txs |-> {}]

(* ------------------------------------------------------------------ *)
(* Initial state: a freshly constructed handler                        *)
(* ------------------------------------------------------------------ *)

\* the state after construction and Start(), on a node whose block index has
\* the entries index and whose active chain ends in tip
InitWith(index, tip) ==
    /\ bestChainLock = NullClsig
    /\ bestChainLockHash = NullHash
    /\ bestChainLockWithKnownBlock = NullClsig
    /\ bestChainLockBlockIndex = NullBlock
    /\ lastNotifyChainLockBlockIndex = NullBlock
    /\ seenChainLocks = Empty
    /\ lastCleanupTime = 0
    /\ lastSignedHeight = -1
    /\ lastSignedRequestId = NullHash
    /\ lastSignedMsgHash = NullBlockHash
    /\ tryLockChainTipScheduled = FALSE
    /\ isEnforced \in BOOLEAN
    /\ isSporkActive \in BOOLEAN
    /\ fMasternodeMode \in BOOLEAN
    /\ synced \in BOOLEAN
    /\ mapBlockIndex = index
    /\ failed = {}
    /\ chainTip = tip
    /\ now = StartTime
    /\ tickDue = TRUE
    /\ pc = [p \in Procs |-> "idle"]
    /\ clsigOf = [p \in Procs |-> NullClsig]
    /\ fromOf = [p \in Procs |-> NoPeer]
    /\ delivered = 0
    /\ spc = "idle"
    /\ task = "none"
    /\ queue = [enforce |-> 0, tip |-> 0]
    /\ locals = NoLocals
    /\ relayed = <<>>
    /\ misbehaving = <<>>
    /\ verifyLog = <<>>
    /\ calls = Empty
    /\ commits = <<>>
    /\ evictions = Empty
    /\ notified = Empty
    /\ signCalls = Empty
    /\ gbt = NoCall
    /\ invalidated = {}
    /\ activations = 0
    /\ aborted = FALSE
    /\ lateHeader = "none"
    /\ txFirstSeenTime = Empty
    /\ blockTxs = Empty
    /\ held = [t \in Threads |-> <<>>]
    /\ prog = [t \in Threads |-> {<<>>}]
    /\ todo = [t \in Threads |-> <<>>]

\* the state after construction and Start(), on a node whose block index has
\* the two tip candidates and whose active chain ends in Bp
Init == InitWith({"G", "A", "B", "Bp"}, "Bp")

(* ------------------------------------------------------------------ *)
(* Queries on the registry                                             *)
(* ------------------------------------------------------------------ *)

\* InternalHasChainLock(nHeight, blockHash), cs held
InternalHasChainLock(h, blockHash) ==
    IF ~isEnforced THEN FALSE
    ELSE IF bestChainLockBlockIndex = NullBlock THEN FALSE
    ELSE IF h > nHeight(bestChainLockBlockIndex) THEN FALSE
    ELSE IF h = nHeight(bestChainLockBlockIndex)
         THEN blockHash = GetBlockHash(bestChainLockBlockIndex)
    ELSE LET pAncestor == GetAncestor(bestChainLockBlockIndex, h)
         IN  pAncestor # NullBlock /\ GetBlockHash(pAncestor) = blockHash

\* the assert(pAncestor) of InternalHasConflictingChainLock fails
ConflictAsserts(h) ==
    /\ isEnforced
    /\ bestChainLockBlockIndex # NullBlock
    /\ h < nHeight(bestChainLockBlockIndex)
    /\ GetAncestor(bestChainLockBlockIndex, h) = NullBlock

\* InternalHasConflictingChainLock without the ancestor comparison: below the
\* locked height nothing conflicts
InternalHasConflictingChainLock_NoAncestor(h, blockHash) ==
    IF ~isEnforced THEN FALSE
    ELSE IF bestChainLockBlockIndex = NullBlock THEN FALSE
    ELSE IF h > nHeight(bestChainLockBlockIndex) THEN FALSE
    ELSE IF h = nHeight(bestChainLockBlockIndex)
         THEN blockHash # GetBlockHash(bestChainLockBlockIndex)
    ELSE FALSE

\* InternalHasConflictingChainLock(nHeight, blockHash), cs held, where the
\* assert passes
InternalHasConflictingChainLock(h, blockHash) ==
    IF ~isEnforced THEN FALSE
    ELSE IF bestChainLockBlockIndex = NullBlock THEN FALSE
    ELSE IF h > nHeight(bestChainLockBlockIndex) THEN FALSE
    ELSE IF h = nHeight(bestChainLockBlockIndex)
         THEN blockHash # GetBlockHash(bestChainLockBlockIndex)
    ELSE GetBlockHash(GetAncestor(bestChainLockBlockIndex, h)) # blockHash

\* HasChainLock(nHeight, blockHash): the public query, taking cs
HasChainLock(h, blockHash) == InternalHasChainLock(h, blockHash)

\* what a call gives when an assert of the code fails in it: the process
\* aborts (SIGABRT) and nothing is returned
Aborts == "abort"

\* HasConflictingChainLock(nHeight, blockHash): the public query, taking cs:
\* "true" or "false", or the abort of assert(pAncestor) for a height with no
\* ancestor of the locked block (a negative one)
HasConflictingChainLock(h, blockHash) ==
    IF ConflictAsserts(h) THEN Aborts
    ELSE IF InternalHasConflictingChainLock(h, blockHash) THEN "true"
    ELSE "false"

(* ------------------------------------------------------------------ *)
(* Ingest pipeline: ProcessMessage, ProcessNewChainLock,               *)
(* HandleNewRecoveredSig                                               *)
(* ------------------------------------------------------------------ *)

\* the height filter with < in place of <=
IsStale_Strict(c) ==
    bestChainLock.nHeight # -1 /\ c.nHeight < bestChainLock.nHeight

\* the height filter of ProcessNewChainLock: an older CLSIG is dropped
IsStale(c) ==
    bestChainLock.nHeight # -1 /\ c.nHeight <= bestChainLock.nHeight

\* the ingest thread returns from ProcessNewChainLock
Return(p) ==
    /\ pc' = [pc EXCEPT ![p] = "idle"]
    /\ clsigOf' = [clsigOf EXCEPT ![p] = NullClsig]
    /\ fromOf' = [fromOf EXCEPT ![p] = NoPeer]

\* the first block of ProcessNewChainLock without the return on a hash that
\* is in the seen-set already
DedupAndFilter_NoDedup(p, c, from) ==
    LET hash == SerializeHash(c) IN
    /\ calls' = CountUp(calls, hash)
    /\ seenChainLocks' = IF hash \in DOMAIN seenChainLocks
                         THEN seenChainLocks
                         ELSE seenChainLocks @@ (hash :> now)
    /\ IF IsStale(c)
       THEN Return(p)
       ELSE /\ pc' = [pc EXCEPT ![p] = "verify"]
            /\ clsigOf' = [clsigOf EXCEPT ![p] = c]
            /\ fromOf' = [fromOf EXCEPT ![p] = from]

\* ProcessNewChainLock, first block under cs: dedup on the seen-set, then the
\* height filter
DedupAndFilter(p, c, from) ==
    LET hash == SerializeHash(c) IN
    /\ calls' = CountUp(calls, hash)
    /\ IF hash \in DOMAIN seenChainLocks
       THEN /\ seenChainLocks' = seenChainLocks
            /\ Return(p)
       ELSE /\ seenChainLocks' = seenChainLocks @@ (hash :> now)
            /\ IF IsStale(c)
               THEN Return(p)
               ELSE /\ pc' = [pc EXCEPT ![p] = "verify"]
                    /\ clsigOf' = [clsigOf EXCEPT ![p] = c]
                    /\ fromOf' = [fromOf EXCEPT ![p] = from]

\* thread p is in no call of the handler: it may make one
Idle(p) == pc[p] = "idle"

\* ProcessMessage(pfrom, CLSIG): deserialise, hash, ProcessNewChainLock up to
\* the end of its first block under cs
ProcessMessage(p, c, peer) ==
    /\ ~aborted
    /\ Idle(p)
    /\ delivered < MaxDeliveries
    /\ delivered' = delivered + 1
    /\ DedupAndFilter(p, c, peer)
    /\ UNCHANGED <<regVars, lastCleanupTime, signVars, lateHeader,
                   txVars, lockVars, tryLockChainTipScheduled,
                   envVars, chainVars, timeVars, schedVars, restObs, aborted>>

\* HandleNewRecoveredSig without the comparison of the request id: any
\* recovered signature over the pending message hash is taken
HandleNewRecoveredSig_AnyId(p, rs) ==
    /\ ~aborted
    /\ Idle(p)
    /\ delivered < MaxDeliveries
    /\ delivered' = delivered + 1
    /\ IF ~isSporkActive
       THEN Return(p)
       ELSE IF rs.msgHash # lastSignedMsgHash
       THEN Return(p)
       ELSE IF bestChainLock.nHeight >= lastSignedHeight
       THEN Return(p)
       ELSE /\ pc' = [pc EXCEPT ![p] = "begin"]
            /\ clsigOf' = [clsigOf EXCEPT ![p] =
                             [nHeight |-> lastSignedHeight,
                              blockHash |-> lastSignedMsgHash,
                              sig |-> rs.sig]]
            /\ fromOf' = [fromOf EXCEPT ![p] = NoPeer]
    /\ UNCHANGED <<regVars, seenVars, signVars, lateHeader, txVars,
                   lockVars, tryLockChainTipScheduled,
                   envVars, chainVars, timeVars, schedVars, obsVars, aborted>>

\* HandleNewRecoveredSig(recoveredSig): the block under cs
HandleNewRecoveredSig(p, rs) ==
    /\ ~aborted
    /\ Idle(p)
    /\ delivered < MaxDeliveries
    /\ delivered' = delivered + 1
    /\ IF ~isSporkActive
       THEN Return(p)
       ELSE IF rs.id # lastSignedRequestId \/ rs.msgHash # lastSignedMsgHash
       THEN Return(p)
       ELSE IF bestChainLock.nHeight >= lastSignedHeight
       THEN Return(p)
       ELSE /\ pc' = [pc EXCEPT ![p] = "begin"]
            /\ clsigOf' = [clsigOf EXCEPT ![p] =
                             [nHeight |-> lastSignedHeight,
                              blockHash |-> lastSignedMsgHash,
                              sig |-> rs.sig]]
            /\ fromOf' = [fromOf EXCEPT ![p] = NoPeer]
    /\ UNCHANGED <<regVars, seenVars, signVars, lateHeader, txVars,
                   lockVars, tryLockChainTipScheduled,
                   envVars, chainVars, timeVars, schedVars, obsVars, aborted>>

\* ProcessNewChainLock(-1, clsig, hash) called by HandleNewRecoveredSig: the
\* first block under cs
Begin(p) ==
    /\ ~aborted
    /\ pc[p] = "begin"
    /\ DedupAndFilter(p, clsigOf[p], fromOf[p])
    /\ UNCHANGED <<regVars, lastCleanupTime, signVars, lateHeader,
                   txVars, lockVars, tryLockChainTipScheduled,
                   envVars, chainVars, timeVars, schedVars, restObs, aborted,
                   delivered>>

\* the block lookup without the height comparison of lines 147-152
BoundBlock_NoHeightCheck(c) ==
    IF c.blockHash \notin mapBlockIndex THEN NullBlock ELSE c.blockHash

\* ProcessNewChainLock: the block index entry the commit binds, or nullptr
\* when the block is unknown or its height is not the CLSIG's
BoundBlock(c) ==
    IF c.blockHash \notin mapBlockIndex THEN NullBlock
    ELSE IF nHeight(c.blockHash) # c.nHeight THEN NullBlock
    ELSE c.blockHash

\* what the commit block leaves alone
CommitFrame ==
    UNCHANGED <<lastNotifyChainLockBlockIndex, seenVars, signVars,
                lateHeader, txVars, lockVars, tryLockChainTipScheduled,
                envVars, chainVars, timeVars, delivered, schedVars, misbehaving,
                verifyLog, calls, evictions, notified, signCalls, invalidated,
                activations>>

\* the commit block with RelayInv moved behind the block lookup, where the
\* early returns skip it
Commit_RelayAfterLookup(p) ==
    LET c == clsigOf[p]
        hash == SerializeHash(c)
    IN
    /\ ~aborted
    /\ pc[p] = "commit"
    /\ IF ConflictAsserts(c.nHeight)
       THEN /\ aborted' = TRUE
            /\ UNCHANGED <<bestVars, pc, clsigOf, fromOf, relayed, commits>>
       ELSE IF InternalHasConflictingChainLock(c.nHeight, c.blockHash)
       THEN /\ Return(p)
            /\ UNCHANGED <<bestVars, relayed, commits, aborted>>
       ELSE /\ bestChainLockHash' = hash
            /\ bestChainLock' = c
            /\ commits' = Append(commits, c)
            /\ IF BoundBlock(c) = NullBlock
               THEN /\ Return(p)
                    /\ UNCHANGED <<bestChainLockWithKnownBlock,
                                   bestChainLockBlockIndex, relayed>>
               ELSE /\ bestChainLockWithKnownBlock' = c
                    /\ bestChainLockBlockIndex' = BoundBlock(c)
                    /\ relayed' = Append(relayed, hash)
                    /\ pc' = [pc EXCEPT ![p] = "schedule"]
                    /\ UNCHANGED <<clsigOf, fromOf>>
            /\ UNCHANGED aborted
    /\ CommitFrame

\* ProcessNewChainLock: the block under LOCK2(cs_main, cs): conflict check
\* (with its assert), assignment of bestChainLock, RelayInv, block lookup and
\* binding; the returns inside the block leave ProcessNewChainLock, and only
\* the end of the block leads on to scheduleFromNow
Commit(p) ==
    LET c == clsigOf[p]
        hash == SerializeHash(c)
    IN
    /\ ~aborted
    /\ pc[p] = "commit"
    /\ IF ConflictAsserts(c.nHeight)
       THEN /\ aborted' = TRUE
            /\ UNCHANGED <<bestVars, pc, clsigOf, fromOf, relayed, commits>>
       ELSE IF InternalHasConflictingChainLock(c.nHeight, c.blockHash)
       THEN /\ Return(p)
            /\ UNCHANGED <<bestVars, relayed, commits, aborted>>
       ELSE /\ bestChainLockHash' = hash
            /\ bestChainLock' = c
            /\ relayed' = Append(relayed, hash)
            /\ commits' = Append(commits, c)
            /\ IF BoundBlock(c) = NullBlock
               THEN /\ Return(p)
                    /\ UNCHANGED <<bestChainLockWithKnownBlock,
                                   bestChainLockBlockIndex>>
               ELSE /\ bestChainLockWithKnownBlock' = c
                    /\ bestChainLockBlockIndex' = BoundBlock(c)
                    /\ pc' = [pc EXCEPT ![p] = "schedule"]
                    /\ UNCHANGED <<clsigOf, fromOf>>
            /\ UNCHANGED aborted
    /\ CommitFrame

\* ProcessNewChainLock: scheduleFromNow(CheckActiveState,
\* EnforceBestChainLock) after both locks are released, and the return
ScheduleEnforce(p) ==
    /\ ~aborted
    /\ pc[p] = "schedule"
    /\ queue' = [queue EXCEPT !.enforce = @ + 1]
    /\ Return(p)
    /\ UNCHANGED <<regVars, seenVars, signVars, lateHeader, txVars,
                   lockVars, tryLockChainTipScheduled, envVars, chainVars,
                   timeVars, delivered, spc, task, locals, obsVars, aborted>>

\* what VerifyRecoveredSig leaves alone: it reads and writes no handler state
VerifyFrame ==
    UNCHANGED <<regVars, seenVars, signVars, lateHeader, txVars,
                lockVars, tryLockChainTipScheduled, envVars, chainVars,
                timeVars, delivered, schedVars, relayed, misbehaving, calls,
                commits, evictions, notified, signCalls, invalidated,
                activations, aborted>>

\* the VerifyRecoveredSig call with its answer ignored: the call goes on to
\* the commit block either way
VerifyRecoveredSig_Unchecked(p, ok) ==
    /\ ~aborted
    /\ pc[p] = "verify"
    /\ verifyLog' = Append(verifyLog, [hash |-> SerializeHash(clsigOf[p]),
                                        ok |-> ok, from |-> fromOf[p]])
    /\ pc' = [pc EXCEPT ![p] = "commit"]
    /\ UNCHANGED <<clsigOf, fromOf>>
    /\ VerifyFrame

\* ProcessNewChainLock: VerifyRecoveredSig, called with no lock held; when it
\* fails the call returns, through Misbehaving when the CLSIG came from a peer
VerifyRecoveredSig(p, ok) ==
    /\ ~aborted
    /\ pc[p] = "verify"
    /\ verifyLog' = Append(verifyLog, [hash |-> SerializeHash(clsigOf[p]),
                                        ok |-> ok, from |-> fromOf[p]])
    /\ IF ok
       THEN /\ pc' = [pc EXCEPT ![p] = "commit"]
            /\ UNCHANGED <<clsigOf, fromOf>>
       ELSE IF fromOf[p] # -1
       THEN /\ pc' = [pc EXCEPT ![p] = "misbehave"]
            /\ UNCHANGED <<clsigOf, fromOf>>
       ELSE Return(p)
    /\ VerifyFrame

\* ProcessNewChainLock: Misbehaving(from, 10) under LOCK(cs_main), and the
\* return
Misbehaving(p) ==
    /\ ~aborted
    /\ pc[p] = "misbehave"
    /\ misbehaving' = Append(misbehaving, <<fromOf[p], 10>>)
    /\ Return(p)
    /\ UNCHANGED <<regVars, seenVars, signVars, lateHeader, txVars,
                   lockVars, tryLockChainTipScheduled, envVars, chainVars,
                   timeVars, delivered, schedVars, relayed, verifyLog, calls,
                   commits, evictions, notified, signCalls, invalidated,
                   activations, aborted>>

(* ------------------------------------------------------------------ *)
(* Chain engine (validation.cpp), as the handler uses it               *)
(* ------------------------------------------------------------------ *)

\* ChainActive().Contains(pindex) for the active chain ending in tip
Contains(tip, b) == b # NullBlock /\ GetAncestor(tip, nHeight(b)) = b

\* for every entry, the entry and those it builds on
AncestorTable == [b \in Blocks |-> {a \in Blocks : GetAncestor(b, nHeight(a)) = a}]

\* b and the entries of the block index that build on it
Descendants(b) == {d \in mapBlockIndex : b \in AncestorTable[d]}

\* b and the entries it builds on
Ancestors(b) == AncestorTable[b]

\* entries that carry no failure flag and build on none that does
ValidBlocks(fl) == {b \in mapBlockIndex : Ancestors(b) \cap fl = {}}

\* ::PrevBlockIndex().equal_range(pindex->pprev->GetBlockHash()) without pindex
Siblings(b) == {s \in mapBlockIndex : pprev(s) = pprev(b) /\ s # b}

\* InvalidateBlock(state, params, pindex) of the chain engine when it returns
\* true: the entry and what builds on it fail, and the active chain is cut
\* back to the entry's predecessor
InvalidateBlock(st, b) ==
    [st EXCEPT !.tip = IF Contains(st.tip, b) THEN pprev(b) ELSE st.tip,
               !.failed = st.failed \cup Descendants(b)]

\* DoInvalidateBlock(pindex, false): InvalidateBlock under cs_main, and
\* assert(false) when the engine answers false.  The activateBestChain
\* branch (ActivateBestChain and its assert, lines 510-515) is not taken:
\* the only call, EnforceBestChainLock line 428, passes false.
DoInvalidateBlock(st, b, ok) ==
    LET called == [st EXCEPT !.invalidated = @ \cup {b}] IN
    IF st.aborted THEN st
    ELSE IF ok THEN InvalidateBlock(called, b)
    ELSE [called EXCEPT !.aborted = TRUE]

\* DoInvalidateBlock(pindex, false) for every entry of a set
RECURSIVE InvalidateAll(_, _, _)
InvalidateAll(st, bs, ok) ==
    IF bs = {} THEN st
    ELSE LET b == CHOOSE x \in bs : TRUE
         IN  InvalidateAll(DoInvalidateBlock(st, b, ok), bs \ {b}, ok)

\* the walk without the stop at the active chain: it goes back to the genesis
\* block
RECURSIVE EnforceWalk_ToGenesis(_, _, _)
EnforceWalk_ToGenesis(st, pindex, ok) ==
    IF pindex = NullBlock \/ st.aborted THEN st
    ELSE EnforceWalk_ToGenesis(InvalidateAll(st, Siblings(pindex), ok),
                               pprev(pindex), ok)

\* EnforceBestChainLock: the walk from the locked block back to the active
\* chain, invalidating at each step the other children of the predecessor;
\* it ends where the process aborts
RECURSIVE EnforceWalk(_, _, _)
EnforceWalk(st, pindex, ok) ==
    IF pindex = NullBlock \/ st.aborted \/ Contains(st.tip, pindex) THEN st
    ELSE EnforceWalk(InvalidateAll(st, Siblings(pindex), ok), pprev(pindex),
                     ok)

\* ResetBlockFailureFlags(pindex): clears the flags of the entry, of what
\* builds on it and of what it builds on
ResetBlockFailureFlags(fl, b) == (fl \ Descendants(b)) \ Ancestors(b)

\* the chains ActivateBestChain may end on: a valid entry at least as high
\* as the tip (block data decides which)
ActivationTargets == {b \in ValidBlocks(failed) : nHeight(b) >= nHeight(chainTip)}

(* ------------------------------------------------------------------ *)
(* Validation signals: UpdatedBlockTip, AcceptedBlockHeader            *)
(* ------------------------------------------------------------------ *)

\* UpdatedBlockTip without the early return on tryLockChainTipScheduled
UpdatedBlockTipBody_NoCheck ==
    /\ tryLockChainTipScheduled' = TRUE
    /\ queue' = [queue EXCEPT !.tip = @ + 1]

\* UpdatedBlockTip(pindexNew): under cs, one zero-delay task at a time
UpdatedBlockTipBody ==
    IF tryLockChainTipScheduled
    THEN UNCHANGED <<tryLockChainTipScheduled, queue>>
    ELSE /\ tryLockChainTipScheduled' = TRUE
         /\ queue' = [queue EXCEPT !.tip = @ + 1]

\* the chain engine moves the active tip and signals UpdatedBlockTip
UpdatedBlockTip(b) ==
    /\ ~aborted
    /\ b \in mapBlockIndex
    /\ nHeight(b) > nHeight(chainTip)
    /\ b \in ValidBlocks(failed)
    /\ chainTip' = b
    /\ UpdatedBlockTipBody
    /\ UNCHANGED <<regVars, seenVars, signVars, lateHeader, txVars,
                   lockVars, envVars, mapBlockIndex, failed,
                   timeVars, procVars, spc, task, locals, obsVars, aborted>>

\* the block index gains entry b and signals AcceptedBlockHeader(b), under
\* cs_main and cs
AcceptedBlockHeader(b) ==
    /\ ~aborted
    /\ b \in Blocks \ mapBlockIndex
    /\ pprev(b) \in mapBlockIndex
    /\ mapBlockIndex' = mapBlockIndex \cup {b}
    /\ IF GetBlockHash(b) = bestChainLock.blockHash
          /\ bestChainLock.nHeight = nHeight(b)
       THEN /\ bestChainLockWithKnownBlock' = bestChainLock
            /\ bestChainLockBlockIndex' = b
            /\ lateHeader' = "bound"
       ELSE UNCHANGED <<bestChainLockWithKnownBlock, bestChainLockBlockIndex,
                        lateHeader>>
    /\ UNCHANGED <<bestChainLock, bestChainLockHash,
                   lastNotifyChainLockBlockIndex, seenVars, signVars,
                   txVars, lockVars,
                   tryLockChainTipScheduled, envVars, failed, chainTip,
                   timeVars, procVars, schedVars, obsVars, aborted>>

\* time passes and the periodic task is due again: by one period, or by more
\* when the scheduler thread was held up or the system clock was set forward
\* (GetTimeMillis and the scheduler read the system clock). A call takes far
\* less than a period and a zero-delay task runs at once, so the clock is seen
\* to move only between calls and with no task waiting
Advance(t) ==
    /\ ~aborted
    /\ t \in Times
    /\ t > now
    /\ \A p \in Procs : pc[p] = "idle"
    /\ spc = "idle"
    /\ ~tickDue
    /\ queue.enforce = 0 /\ queue.tip = 0
    /\ now' = t
    /\ tickDue' = TRUE
    /\ UNCHANGED <<regVars, seenVars, signVars, lateHeader, txVars,
                   lockVars, tryLockChainTipScheduled,
                   envVars, chainVars, procVars, schedVars, obsVars, aborted>>

(* ------------------------------------------------------------------ *)
(* Scheduler thread: the 5-second tick of Start(), the zero-delay task *)
(* of ProcessNewChainLock and the zero-delay task of UpdatedBlockTip   *)
(* ------------------------------------------------------------------ *)

TaskKinds == {"tick", "enforce", "tip"}

\* CheckActiveState(): under cs, the registry goes back to its initial values
CheckActiveState ==
    /\ bestChainLockHash' = NullHash
    /\ bestChainLock' = NullClsig
    /\ bestChainLockWithKnownBlock' = NullClsig
    /\ bestChainLockBlockIndex' = NullBlock
    /\ lastNotifyChainLockBlockIndex' = NullBlock

\* the scheduler thread takes the next task and runs its first call,
\* CheckActiveState(): the periodic task is due once at each instant the model
\* observes (the instants are a period or more apart), a zero-delay task must
\* be queued
RunTask(kind) ==
    /\ ~aborted
    /\ spc = "idle"
    /\ kind \in TaskKinds
    /\ IF kind = "tick" THEN tickDue ELSE queue[kind] > 0
    /\ queue' = IF kind = "tick" THEN queue ELSE [queue EXCEPT ![kind] = @ - 1]
    /\ tickDue' = IF kind = "tick" THEN FALSE ELSE tickDue
    /\ task' = kind
    /\ CheckActiveState
    /\ lateHeader' = IF kind = "tick" /\ lateHeader = "bound"
                   THEN "tick" ELSE "none"
    /\ spc' = "Enforce1"
    /\ UNCHANGED <<seenVars, signVars, txVars, lockVars,
                   tryLockChainTipScheduled,
                   envVars, chainVars, now, procVars, locals, obsVars,
                   aborted>>

\* where the scheduler thread goes when EnforceBestChainLock returns
AfterEnforce == IF task = "enforce" THEN "idle" ELSE "CleanupCheck"

\* where it goes when TrySignChainTip returns
AfterSign == IF task = "tip" THEN "ClearFlag" ELSE "idle"

\* the task variable once the thread is at `next`
TaskAt(next) == IF next = "idle" THEN "none" ELSE task

\* EnforceBestChainLock(): the block under cs that snapshots the registry
Enforce1 ==
    /\ ~aborted
    /\ spc = "Enforce1"
    /\ IF ~isEnforced \/ bestChainLockBlockIndex = NullBlock
       THEN /\ spc' = AfterEnforce
            /\ task' = TaskAt(AfterEnforce)
            /\ locals' = NoLocals
       ELSE /\ spc' = "Enforce2"
            /\ locals' = [locals EXCEPT !.pindex = bestChainLockBlockIndex]
            /\ task' = task
    /\ UNCHANGED <<regVars, seenVars, signVars, lateHeader, txVars,
                   lockVars, tryLockChainTipScheduled,
                   envVars, chainVars, timeVars, procVars, queue, obsVars,
                   aborted>>

\* EnforceBestChainLock(): the block under cs_main that invalidates the
\* competing branches, reconsiders the locked block and computes
\* activateNeeded; invOk is the engine's answer to InvalidateBlock
Enforce2(invOk) ==
    LET cur == locals.pindex
        walked == EnforceWalk([tip |-> chainTip, failed |-> failed,
                               invalidated |-> invalidated,
                               aborted |-> FALSE], cur, invOk)
        cleared == IF cur \in walked.failed
                   THEN ResetBlockFailureFlags(walked.failed, cur)
                   ELSE walked.failed
    IN
    /\ ~aborted
    /\ spc = "Enforce2"
    /\ invalidated' = walked.invalidated
    /\ chainTip' = walked.tip
    /\ IF walked.aborted
       THEN /\ aborted' = TRUE
            /\ failed' = walked.failed
            /\ UNCHANGED <<locals, spc>>
       ELSE /\ failed' = cleared
            /\ locals' = [locals EXCEPT
                            !.activateNeeded =
                               GetAncestor(walked.tip, nHeight(cur)) # cur]
            /\ spc' = "Enforce3"
            /\ UNCHANGED aborted
    /\ UNCHANGED <<regVars, seenVars, signVars, lateHeader, txVars,
                   lockVars, tryLockChainTipScheduled,
                   envVars, mapBlockIndex, timeVars, procVars, task, queue,
                   relayed, misbehaving, verifyLog, calls, commits, evictions,
                   notified, signCalls, activations>>

\* EnforceBestChainLock(): ActivateBestChain with no lock held; a new tip is
\* signalled through UpdatedBlockTip
Enforce3(newTip) ==
    /\ ~aborted
    /\ spc = "Enforce3"
    /\ IF locals.activateNeeded
       THEN /\ newTip \in ActivationTargets
            /\ chainTip' = newTip
            /\ activations' = IF activations < 2 THEN activations + 1 ELSE activations
            /\ IF newTip # chainTip
               THEN UpdatedBlockTipBody
               ELSE UNCHANGED <<tryLockChainTipScheduled, queue>>
       ELSE /\ newTip = chainTip
            /\ UNCHANGED <<chainTip, activations, tryLockChainTipScheduled,
                           queue>>
    /\ spc' = "Enforce4"
    /\ UNCHANGED <<regVars, seenVars, signVars, lateHeader, txVars,
                   lockVars, envVars, mapBlockIndex, failed,
                   timeVars, procVars, task, locals, relayed, misbehaving,
                   verifyLog, calls, commits, evictions, notified, signCalls,
                   invalidated, aborted>>

\* EnforceBestChainLock(): the block under cs_main that decides the
\* notification and writes lastNotifyChainLockBlockIndex
Enforce4 ==
    LET cur == locals.pindex
        notify == /\ lastNotifyChainLockBlockIndex # cur
                  /\ GetAncestor(chainTip, nHeight(cur)) = cur
        next == IF notify THEN "Enforce5" ELSE AfterEnforce
    IN
    /\ ~aborted
    /\ spc = "Enforce4"
    /\ lastNotifyChainLockBlockIndex' =
          IF notify THEN cur ELSE lastNotifyChainLockBlockIndex
    /\ spc' = next
    /\ task' = TaskAt(next)
    /\ locals' = IF notify THEN locals ELSE NoLocals
    /\ UNCHANGED <<bestVars, seenVars, signVars, lateHeader, txVars,
                   lockVars, tryLockChainTipScheduled,
                   envVars, chainVars, timeVars, procVars, queue, obsVars,
                   aborted>>

\* EnforceBestChainLock(): NotifyChainLock(pindexNotify), with no lock held
Enforce5 ==
    /\ ~aborted
    /\ spc = "Enforce5"
    /\ notified' = CountUpTo2(notified, locals.pindex)
    /\ spc' = AfterEnforce
    /\ task' = TaskAt(AfterEnforce)
    /\ locals' = NoLocals
    /\ UNCHANGED <<regVars, seenVars, signVars, lateHeader, txVars,
                   lockVars, tryLockChainTipScheduled,
                   envVars, chainVars, timeVars, procVars, queue, relayed,
                   misbehaving, verifyLog, calls, commits, evictions, signCalls,
                   invalidated, activations, aborted>>

(* ------------------------------------------------------------------ *)
(* Block-tx tracker: SyncTransaction, GetBlockTxs, IsTxSafeForMining   *)
(* ------------------------------------------------------------------ *)

\* transaction ids
Txids == {"t1"}

\* the coinbase of a block, which the tracker skips
Coinbase == "cb"

\* block.vtx without the coinbase
BlockTxids(b) ==
    IF b = "Bp" THEN {"t1"} ELSE {}

\* block.nTime, in seconds
BlockTime(b) == StartTime \div 1000

\* GetAdjustedTime(): seconds, where GetTimeMillis() gives milliseconds
GetAdjustedTime == now \div 1000

\* seconds a transaction must have been known before its block is proposed
WAIT_FOR_ISLOCK_TIMEOUT == 600

\* std::unordered_map::emplace: an existing key keeps its value
Emplace(f, k, v) ==
    IF k \in DOMAIN f THEN f
    ELSE [x \in DOMAIN f \cup {k} |-> IF x = k THEN v ELSE f[x]]

\* emplace of one value for every key of a set
EmplaceAll(f, ks, v) ==
    [x \in DOMAIN f \cup ks |-> IF x \in DOMAIN f THEN f[x] ELSE v]

\* erase of a set of keys
EraseAll(f, ks) == [x \in DOMAIN f \ ks |-> f[x]]

\* IsTxSafeForMining(txid): under cs; a txid never seen has age 0
IsTxSafeForMining(txid) ==
    IF ~isSporkActive THEN TRUE
    ELSE LET txAge == IF txid \in DOMAIN txFirstSeenTime
                      THEN GetAdjustedTime - txFirstSeenTime[txid]
                      ELSE 0
         IN  ~(txAge < WAIT_FOR_ISLOCK_TIMEOUT)

\* SyncTransaction(tx, pindex, posInBlock): the validation thread announces a
\* transaction of the mempool (pindex null) or of block pindex; under cs
SyncTransaction(txid, pindex) ==
    LET handleTx == txid # Coinbase
        h == GetBlockHash(pindex)
        cur == IF h \in DOMAIN blockTxs THEN blockTxs[h] ELSE {}
    IN
    /\ ~aborted
    /\ synced
    /\ IF pindex = NullBlock
       THEN txid \in Txids
       ELSE pindex \in mapBlockIndex /\ txid \in BlockTxids(pindex) \cup {Coinbase}
    /\ txFirstSeenTime' = IF handleTx
                          THEN Emplace(txFirstSeenTime, txid, GetAdjustedTime)
                          ELSE txFirstSeenTime
    /\ blockTxs' = IF pindex = NullBlock THEN blockTxs
                   ELSE [x \in DOMAIN blockTxs \cup {h} |->
                           IF x # h THEN blockTxs[x]
                           ELSE IF handleTx THEN cur \cup {txid} ELSE cur]
    /\ UNCHANGED <<regVars, seenVars, signVars, lateHeader, gbt, lockVars,
                   tryLockChainTipScheduled, envVars, chainVars, timeVars,
                   procVars, schedVars, obsVars, aborted>>

\* what GetBlockTxs leaves alone
GetBlockTxsFrame ==
    UNCHANGED <<regVars, seenVars, signVars, lateHeader, lockVars,
                tryLockChainTipScheduled, envVars, chainVars, timeVars,
                procVars, schedVars, obsVars, aborted>>

\* GetBlockTxs returns: kind is "set" for a set of txids, "null" for nullptr
\* and "out_of_range" for the exception of BlockIndex().at()
Returned(hash, kind, txs) ==
    [pc |-> "idle", hash |-> hash, kind |-> kind, txs |-> txs]

\* GetBlockTxs(blockHash): the lookup in blockTxs under cs
GetBlockTxs(blockHash) ==
    /\ ~aborted
    /\ gbt.pc = "idle"
    /\ gbt' = IF blockHash \in DOMAIN blockTxs
              THEN Returned(blockHash, "set", blockTxs[blockHash])
              ELSE [pc |-> "read", hash |-> blockHash, kind |-> "none",
                    txs |-> {}]
    /\ UNCHANGED <<txFirstSeenTime, blockTxs>>
    /\ GetBlockTxsFrame

\* GetBlockTxs: under cs_main, the block index entry and the block read from
\* disk; at() throws for a hash the index does not have, a failed read
\* returns nullptr
GetBlockTxs_Read(readOk) ==
    /\ ~aborted
    /\ gbt.pc = "read"
    /\ gbt' = IF gbt.hash \notin mapBlockIndex
              THEN Returned(gbt.hash, "out_of_range", {})
              ELSE IF ~readOk THEN Returned(gbt.hash, "null", {})
              ELSE [pc |-> "store", hash |-> gbt.hash, kind |-> "none",
                    txs |-> BlockTxids(gbt.hash)]
    /\ UNCHANGED <<txFirstSeenTime, blockTxs>>
    /\ GetBlockTxsFrame

\* GetBlockTxs: under cs again, the set is stored unless an entry has
\* appeared meanwhile, its txids are stamped with the block time, and the set
\* read from disk is returned
GetBlockTxs_Store ==
    /\ ~aborted
    /\ gbt.pc = "store"
    /\ blockTxs' = Emplace(blockTxs, gbt.hash, gbt.txs)
    /\ txFirstSeenTime' = EmplaceAll(txFirstSeenTime, gbt.txs,
                                     BlockTime(gbt.hash))
    /\ gbt' = Returned(gbt.hash, "set", gbt.txs)
    /\ GetBlockTxsFrame

\* Cleanup(): blockTxs entries of locked blocks, whose txids are forgotten
LockedEntries ==
    {b \in DOMAIN blockTxs : InternalHasChainLock(nHeight(b), GetBlockHash(b))}

\* Cleanup(): blockTxs entries of blocks that conflict with the lock
ConflictingEntries ==
    {b \in DOMAIN blockTxs \ LockedEntries :
        InternalHasConflictingChainLock(nHeight(b), GetBlockHash(b))}

\* Cleanup(): GetTransaction finds the txid in a block of the active chain
\* with 6 confirmations or more
Confirmed(txid) ==
    \E b \in mapBlockIndex :
        /\ txid \in BlockTxids(b)
        /\ GetAncestor(chainTip, nHeight(b)) = b
        /\ nHeight(chainTip) - nHeight(b) >= 6

\* Cleanup(): txFirstSeenTime after the blockTxs loop and the txid loop; gone
\* are the txids GetTransaction does not find
CleanedFirstSeen(gone) ==
    LET forgotten == UNION {blockTxs[b] : b \in LockedEntries}
        kept == EraseAll(txFirstSeenTime, forgotten)
    IN  EraseAll(kept, {t \in DOMAIN kept : t \in gone \/ Confirmed(t)})

\* seen-set entries Cleanup erases: those of age CLEANUP_SEEN_TIMEOUT or more
Expired == {h \in DOMAIN seenChainLocks :
              now - seenChainLocks[h] >= CLEANUP_SEEN_TIMEOUT}

RECURSIVE CountUpAll(_, _)
CountUpAll(f, ks) ==
    IF ks = {} THEN f
    ELSE LET k == CHOOSE x \in ks : TRUE
         IN  CountUpAll(CountUp(f, k), ks \ {k})

\* Cleanup() runs its eviction pass: synced and CLEANUP_INTERVAL elapsed
CleanupDue == synced /\ ~(now - lastCleanupTime < CLEANUP_INTERVAL)

\* Cleanup(): the sync check and the interval check, the latter in a LOCK(cs)
\* scope of its own
CleanupCheck ==
    LET next == IF CleanupDue THEN "Cleanup" ELSE "SignModes" IN
    /\ ~aborted
    /\ spc = "CleanupCheck"
    /\ spc' = next
    /\ UNCHANGED <<regVars, seenVars, signVars, lateHeader, txVars,
                   lockVars, tryLockChainTipScheduled, envVars, chainVars,
                   timeVars, procVars, task, queue, locals, obsVars, aborted>>

\* Cleanup(): the eviction pass under cs_main, mempool.cs and cs; gone are
\* the txids GetTransaction does not find
Cleanup(gone) ==
    /\ ~aborted
    /\ spc = "Cleanup"
    /\ seenChainLocks' = [h \in DOMAIN seenChainLocks \ Expired |->
                            seenChainLocks[h]]
    /\ evictions' = CountUpAll(evictions, Expired)
    /\ blockTxs' = EraseAll(blockTxs, LockedEntries \cup ConflictingEntries)
    /\ txFirstSeenTime' = CleanedFirstSeen(gone)
    /\ lastCleanupTime' = now
    /\ spc' = "SignModes"
    /\ UNCHANGED <<regVars, signVars, lateHeader, gbt, lockVars,
                   tryLockChainTipScheduled, envVars,
                   chainVars, timeVars, procVars, task, queue, locals, relayed,
                   misbehaving, verifyLog, calls, commits, notified, signCalls,
                   invalidated, activations, aborted>>

\* TrySignChainTip(): after Cleanup() has returned and released its locks,
\* the masternode and sync checks
SignModes ==
    LET next == IF fMasternodeMode /\ synced THEN "Sign1" ELSE AfterSign IN
    /\ ~aborted
    /\ spc = "SignModes"
    /\ spc' = next
    /\ task' = TaskAt(next)
    /\ UNCHANGED <<regVars, seenVars, signVars, lateHeader, txVars,
                   lockVars, tryLockChainTipScheduled, envVars, chainVars,
                   timeVars, procVars, queue, locals, obsVars, aborted>>

\* TrySignChainTip(): the tip read under cs_main, and the pprev check
Sign1 ==
    LET next == IF pprev(chainTip) = NullBlock THEN AfterSign ELSE "Sign2" IN
    /\ ~aborted
    /\ spc = "Sign1"
    /\ spc' = next
    /\ task' = TaskAt(next)
    /\ locals' = IF next = "Sign2" THEN [locals EXCEPT !.tip = chainTip]
                 ELSE NoLocals
    /\ UNCHANGED <<regVars, seenVars, signVars, lateHeader, txVars,
                   lockVars, tryLockChainTipScheduled,
                   envVars, chainVars, timeVars, procVars, queue, obsVars,
                   aborted>>

\* TrySignChainTip(): the four checks of the first block under cs
MaySign(tip) ==
    /\ isSporkActive
    /\ nHeight(tip) # lastSignedHeight
    /\ ~(bestChainLock.nHeight >= nHeight(tip))
    /\ ~InternalHasConflictingChainLock(nHeight(tip), GetBlockHash(tip))

\* TrySignChainTip(): the first block under cs
Sign2 ==
    LET next == IF MaySign(locals.tip) THEN "Sign3" ELSE AfterSign IN
    /\ ~aborted
    /\ spc = "Sign2"
    /\ spc' = next
    /\ task' = TaskAt(next)
    /\ locals' = IF next = "Sign3" THEN locals ELSE NoLocals
    /\ UNCHANGED <<regVars, seenVars, signVars, lateHeader, txVars,
                   lockVars, tryLockChainTipScheduled,
                   envVars, chainVars, timeVars, procVars, queue, obsVars,
                   aborted>>

\* TrySignChainTip(): the second block under cs, which checks bestChainLock
\* again and records the proposal
Sign3 ==
    LET tip == locals.tip
        late == bestChainLock.nHeight >= nHeight(tip)
        next == IF late THEN AfterSign ELSE "Sign4"
    IN
    /\ ~aborted
    /\ spc = "Sign3"
    /\ IF late
       THEN UNCHANGED signVars
       ELSE /\ lastSignedHeight' = nHeight(tip)
            /\ lastSignedRequestId' = RequestId(nHeight(tip))
            /\ lastSignedMsgHash' = GetBlockHash(tip)
    /\ spc' = next
    /\ task' = TaskAt(next)
    /\ locals' = IF late THEN NoLocals ELSE locals
    /\ UNCHANGED <<regVars, seenVars, lateHeader, txVars, lockVars,
                   tryLockChainTipScheduled,
                   envVars, chainVars, timeVars, procVars, queue, obsVars,
                   aborted>>

\* what AsyncSignIfMember leaves alone
SignFrame ==
    UNCHANGED <<regVars, seenVars, signVars, lateHeader, txVars, lockVars,
                tryLockChainTipScheduled,
                envVars, chainVars, timeVars, procVars, queue, relayed,
                misbehaving, verifyLog, calls, commits, evictions, notified,
                invalidated, activations, aborted>>

\* TrySignChainTip(): AsyncSignIfMember(requestId, msgHash), with no lock held
Sign4 ==
    LET tip == locals.tip IN
    /\ ~aborted
    /\ spc = "Sign4"
    /\ signCalls' = CountUpTo2(signCalls, nHeight(tip))
    /\ spc' = AfterSign
    /\ task' = TaskAt(AfterSign)
    /\ locals' = NoLocals
    /\ SignFrame

\* the end of UpdatedBlockTip's task: under cs, the flag is cleared
ClearFlag ==
    /\ ~aborted
    /\ spc = "ClearFlag"
    /\ tryLockChainTipScheduled' = FALSE
    /\ spc' = "idle"
    /\ task' = "none"
    /\ UNCHANGED <<regVars, seenVars, signVars, lateHeader, txVars,
                   lockVars, envVars, chainVars, timeVars,
                   procVars, queue, locals, obsVars, aborted>>

(* ------------------------------------------------------------------ *)
(* Lock level: for every handler function, the LOCK / LOCK2 scopes it  *)
(* opens and the registry fields it reads and writes inside them, on    *)
(* each of its control paths                                           *)
(* ------------------------------------------------------------------ *)

Locks == {"cs_main", "mempool.cs", "cs"}

\* the best-lock registry
RegistryFields ==
    {"bestChainLock", "bestChainLockHash", "bestChainLockWithKnownBlock",
     "bestChainLockBlockIndex", "lastNotifyChainLockBlockIndex"}

Ev(k, l, r, w) == [kind |-> k, lock |-> l, reads |-> r, writes |-> w]

\* LOCK(l): the scope is entered
Lk(l) == Ev("lock", l, {}, {})

\* the scope of LOCK(l) is left
Ul(l) == Ev("unlock", l, {}, {})

\* registry fields read and written at this point
Acc(r, w) == Ev("access", "none", r, w)

\* a failing assert ends the process where it is, with the locks it holds
Ab == Ev("abort", "none", {}, {})

\* ProcessNewChainLock(from, ...), peer = (from # -1): LOCK(cs_main) 95,
\* LOCK(cs) 101 with the returns at 103 (seen) and 108 (height filter, after
\* the read of bestChainLock at 106), the return after a failed verification
\* (LOCK(cs_main) 117 around Misbehaving for a peer's CLSIG only), and
\* LOCK2(cs_main, cs) 124. In that last scope bestChainLockBlockIndex is read
\* only when isEnforced (554-556 return before it otherwise): the conflict
\* return 131 (which logs bestChainLock), the assert at 571, the returns at
\* 144 and 151 after the writes of 134-135, and the binding of 155-156
ProcessNewChainLockRuns(peer) ==
    LET pre == <<Lk("cs_main"), Ul("cs_main"), Lk("cs")>>
        dup == pre \o <<Ul("cs")>>
        filt == pre \o <<Acc({"bestChainLock"}, {}), Ul("cs")>>
        both == filt \o <<Lk("cs_main"), Lk("cs")>>
        out == <<Ul("cs"), Ul("cs_main")>>
        early == {"bestChainLockHash", "bestChainLock"}
        bound == early \cup {"bestChainLockWithKnownBlock",
                             "bestChainLockBlockIndex"}
    IN  {dup, filt}
        \cup (IF peer THEN {filt \o <<Lk("cs_main"), Ul("cs_main")>>}
              ELSE {})
        \cup {both \o <<Acc({"bestChainLockBlockIndex", "bestChainLock"},
                            {})>> \o out,
              both \o <<Acc({"bestChainLockBlockIndex"}, {}), Ab>>,
              both \o <<Acc({}, early)>> \o out,
              both \o <<Acc({"bestChainLockBlockIndex"}, early)>> \o out,
              both \o <<Acc({"bestChainLock"}, bound)>> \o out,
              both \o <<Acc({"bestChainLockBlockIndex", "bestChainLock"},
                            bound)>> \o out}

\* ProcessNewChainLock called for a peer's CLSIG (ProcessMessage, 88)
ProcessNewChainLockPaths == ProcessNewChainLockRuns(TRUE)

\* HandleNewRecoveredSig: LOCK(cs) 469 with the returns at 472 and 477, the
\* read of bestChainLock at 479 and the return at 481; past it the scope is
\* left and ProcessNewChainLock(-1, ...) is called (488)
HandleNewRecoveredSigPaths ==
    LET read == <<Lk("cs"), Acc({"bestChainLock"}, {}), Ul("cs")>>
    IN  {<<Lk("cs"), Ul("cs")>>, read}
        \cup {read \o p : p \in ProcessNewChainLockRuns(FALSE)}

\* AcceptedBlockHeader with cs taken before cs_main
AcceptedBlockHeaderPaths_CsFirst ==
    {<<Lk("cs"), Lk("cs_main"), Acc({"bestChainLock"}, {}),
       Ul("cs_main"), Ul("cs")>>}

\* AcceptedBlockHeader: LOCK2(cs_main, cs) 170
AcceptedBlockHeaderPaths ==
    {<<Lk("cs_main"), Lk("cs"), Acc({"bestChainLock"}, {}),
       Ul("cs"), Ul("cs_main")>>,
     <<Lk("cs_main"), Lk("cs"),
       Acc({"bestChainLock"},
           {"bestChainLockWithKnownBlock", "bestChainLockBlockIndex"}),
       Ul("cs"), Ul("cs_main")>>}

\* UpdatedBlockTip: LOCK(cs) 195
UpdatedBlockTipPaths == {<<Lk("cs"), Ul("cs")>>}

\* CheckActiveState: LOCK(cs) 213
CheckActiveStatePaths == {<<Lk("cs"), Acc({}, RegistryFields), Ul("cs")>>}

\* EnforceBestChainLock: LOCK(cs) 398, LOCK(cs_main) 415 with
\* DoInvalidateBlock's LOCK(cs_main) 497 inside it (its assert at 506 ends
\* the process when InvalidateBlock fails), ActivateBestChain with
\* no lock held (it takes cs_main itself, and signals UpdatedBlockTip when
\* it moved the tip; it may fail or leave the tip where it was, 445-448),
\* LOCK(cs_main) 452
EnforceBestChainLockPaths ==
    LET snap == <<Lk("cs"),
                  Acc({"bestChainLockWithKnownBlock",
                       "bestChainLockBlockIndex"}, {}),
                  Ul("cs")>>
        walks == {<<Lk("cs_main"), Ul("cs_main")>>,
                  <<Lk("cs_main"), Lk("cs_main"), Ul("cs_main"),
                    Ul("cs_main")>>}
        activates == {<<>>,
                      <<Lk("cs_main"), Ul("cs_main")>>,
                      <<Lk("cs_main"), Ul("cs_main"), Lk("cs"), Ul("cs")>>}
        notifies == {<<Lk("cs_main"),
                       Acc({"lastNotifyChainLockBlockIndex"}, {}),
                       Ul("cs_main")>>,
                     <<Lk("cs_main"),
                       Acc({"lastNotifyChainLockBlockIndex"},
                           {"lastNotifyChainLockBlockIndex"}),
                       Ul("cs_main")>>}
    IN  {<<Lk("cs"), Ul("cs")>>, snap,
         snap \o <<Lk("cs_main"), Lk("cs_main"), Ab>>}
        \cup {snap \o w \o a \o n :
                w \in walks, a \in activates, n \in notifies}

\* GetTransaction (616), a function of the chain engine: it takes
\* mempool.cs, which is why Cleanup holds it (comment at 588)
GetTransactionLocks == <<Lk("mempool.cs"), Ul("mempool.cs")>>

\* Cleanup: no lock when not synced (577), LOCK(cs) 582 (return at 584),
\* LOCK2(cs_main, mempool.cs) 589 and LOCK(cs) 590 to the end. The loop of
\* 600-612 reads bestChainLockBlockIndex when blockTxs has an entry and
\* isEnforced; the loop of 614-626 calls GetTransaction once for every entry
\* of txFirstSeenTime (none, one or two)
CleanupPaths ==
    LET open == <<Lk("cs"), Ul("cs"), Lk("cs_main"), Lk("mempool.cs"),
                  Lk("cs")>>
        close == <<Ul("cs"), Ul("mempool.cs"), Ul("cs_main")>>
        blocks == {<<>>, <<Acc({"bestChainLockBlockIndex"}, {})>>}
        txs == {<<>>, GetTransactionLocks,
                GetTransactionLocks \o GetTransactionLocks}
    IN  {<<>>, <<Lk("cs"), Ul("cs")>>}
        \cup {open \o b \o g \o close : b \in blocks, g \in txs}

\* TrySignChainTip after Cleanup: returns with no lock (223, 226),
\* LOCK(cs_main) 231 (return at 235), LOCK(cs) 245 with the returns at 247
\* and 251 (no registry field read), 258 (after the read of bestChainLock
\* at 256) and 264 (after InternalHasConflictingChainLock, which reads
\* bestChainLockBlockIndex when isEnforced), and LOCK(cs) 274 with the read
\* of bestChainLock and the return at 277
SignTipPaths ==
    LET tip == <<Lk("cs_main"), Ul("cs_main")>>
        height == tip \o <<Lk("cs"), Acc({"bestChainLock"}, {}), Ul("cs")>>
        conflict == tip \o <<Lk("cs"),
                             Acc({"bestChainLock",
                                  "bestChainLockBlockIndex"}, {}),
                             Ul("cs")>>
        second == <<Lk("cs"), Acc({"bestChainLock"}, {}), Ul("cs")>>
    IN  {<<>>,
         tip,
         tip \o <<Lk("cs"), Ul("cs")>>,
         height,
         height \o second,
         conflict,
         conflict \o second}

\* the end of UpdatedBlockTip's task: LOCK(cs) 204
ClearFlagPaths == {<<Lk("cs"), Ul("cs")>>}

\* SyncTransaction: LOCK(cs) 298
SyncTransactionPaths == {<<>>, <<Lk("cs"), Ul("cs")>>}

\* GetBlockTxs: LOCK(cs) 329, LOCK(cs_main) 343, LOCK(cs) 361
GetBlockTxsPaths ==
    {<<Lk("cs"), Ul("cs")>>,
     <<Lk("cs"), Ul("cs"), Lk("cs_main"), Ul("cs_main")>>,
     <<Lk("cs"), Ul("cs"), Lk("cs_main"), Ul("cs_main"), Lk("cs"),
       Ul("cs")>>}

\* IsTxSafeForMining: LOCK(cs) 374
IsTxSafeForMiningPaths == {<<Lk("cs"), Ul("cs")>>}

\* AlreadyHave: LOCK(cs) 61
AlreadyHavePaths == {<<Lk("cs"), Ul("cs")>>}

\* GetChainLockByHash: LOCK(cs) 67
GetChainLockByHashPaths ==
    {<<Lk("cs"), Acc({"bestChainLockHash"}, {}), Ul("cs")>>,
     <<Lk("cs"), Acc({"bestChainLockHash", "bestChainLock"}, {}), Ul("cs")>>}

\* HasChainLock 520 and HasConflictingChainLock 546: LOCK(cs)
QueryPaths ==
    {<<Lk("cs"), Ul("cs")>>,
     <<Lk("cs"), Acc({"bestChainLockBlockIndex"}, {}), Ul("cs")>>}

\* HasConflictingChainLock: also the assert at 571
ConflictQueryPaths ==
    QueryPaths \cup {<<Lk("cs"), Acc({"bestChainLockBlockIndex"}, {}), Ab>>}

\* the control paths of a function; the validation engine's own LOCK(cs_main)
\* around a signal or query is a function of its own
Paths(fn) ==
    CASE fn = "ProcessNewChainLock" -> ProcessNewChainLockPaths
      [] fn = "HandleNewRecoveredSig" -> HandleNewRecoveredSigPaths
      [] fn = "AcceptedBlockHeader" -> AcceptedBlockHeaderPaths
      [] fn = "UpdatedBlockTip" -> UpdatedBlockTipPaths
      [] fn = "CheckActiveState" -> CheckActiveStatePaths
      [] fn = "EnforceBestChainLock" -> EnforceBestChainLockPaths
      [] fn = "Cleanup" -> CleanupPaths
      [] fn = "TrySignChainTip" -> SignTipPaths
      [] fn = "ClearFlag" -> ClearFlagPaths
      [] fn = "SyncTransaction" -> SyncTransactionPaths
      [] fn = "GetBlockTxs" -> GetBlockTxsPaths
      [] fn = "IsTxSafeForMining" -> IsTxSafeForMiningPaths
      [] fn = "HasChainLock" -> QueryPaths
      [] fn = "HasConflictingChainLock" -> ConflictQueryPaths
      [] fn = "AlreadyHave" -> AlreadyHavePaths
      [] fn = "GetChainLockByHash" -> GetChainLockByHashPaths
      [] fn = "EnterCsMain" -> {<<Lk("cs_main")>>}
      [] fn = "LeaveCsMain" -> {<<Ul("cs_main")>>}

\* a call made by the validation engine while it holds cs_main
UnderCsMain(fn) == <<"EnterCsMain", fn, "LeaveCsMain">>

\* what each calling context calls: the functions of one operation, in order
Operations(t) ==
    CASE t = "net" ->
           {<<"ProcessNewChainLock">>,
            <<"AlreadyHave">>,
            <<"GetChainLockByHash">>}
      [] t = "validation" ->
           {<<"AcceptedBlockHeader">>, <<"UpdatedBlockTip">>,
            <<"SyncTransaction">>,
            UnderCsMain("AcceptedBlockHeader"),
            UnderCsMain("SyncTransaction"),
            UnderCsMain("HasChainLock"),
            UnderCsMain("HasConflictingChainLock")}
      [] t = "mempool" ->
           {<<"SyncTransaction">>, <<"IsTxSafeForMining">>,
            <<"GetBlockTxs">>, <<"HasChainLock">>}
      [] t = "scheduler" ->
           {<<"CheckActiveState", "EnforceBestChainLock", "Cleanup",
              "TrySignChainTip">>,
            <<"CheckActiveState", "EnforceBestChainLock">>,
            <<"CheckActiveState", "EnforceBestChainLock", "Cleanup",
              "TrySignChainTip", "ClearFlag">>}
      [] t = "sigs" -> {<<"HandleNewRecoveredSig">>}

\* the threads that hold lock l
Holders(l) == {t \in Threads : \E i \in 1..Len(held[t]) : held[t][i] = l}

\* thread t holds lock l
Holds(t, l) == t \in Holders(l)

\* the events thread t may be at: the next event of a control path that
\* agrees with what the thread has done in the function so far
NextEvents(t) == {Head(p) : p \in prog[t] \ {<<>>}}

\* thread t is at an event of kind k
At(t, k) == \E e \in NextEvents(t) : e.kind = k

\* the control paths left once thread t has taken event e
After(t, e) == {Tail(p) : p \in {q \in prog[t] \ {<<>>} : Head(q) = e}}

\* thread t may return from the function it is in, or is in none
MayReturn(t) == <<>> \in prog[t]

\* thread t starts an operation
StartOp(t, fns) ==
    /\ ~aborted
    /\ todo[t] = <<>> /\ MayReturn(t)
    /\ fns \in Operations(t)
    /\ todo' = [todo EXCEPT ![t] = Tail(fns)]
    /\ prog' = [prog EXCEPT ![t] = Paths(Head(fns))]
    /\ UNCHANGED <<dataVars, held>>

\* thread t returns from a function and enters the next one of its operation
EnterFn(t) ==
    /\ ~aborted
    /\ todo[t] # <<>> /\ MayReturn(t)
    /\ prog' = [prog EXCEPT ![t] = Paths(Head(todo[t]))]
    /\ todo' = [todo EXCEPT ![t] = Tail(@)]
    /\ UNCHANGED <<dataVars, held>>

\* LOCK(l): the mutexes are recursive, a thread waits while another holds l
Acquire(t) ==
    /\ ~aborted
    /\ \E e \in NextEvents(t) :
         /\ e.kind = "lock"
         /\ Holders(e.lock) \subseteq {t}
         /\ held' = [held EXCEPT ![t] = Append(@, e.lock)]
         /\ prog' = [prog EXCEPT ![t] = After(t, e)]
    /\ UNCHANGED <<dataVars, todo>>

\* the end of a LOCK scope: scopes nest, so the lock is the last one taken
Release(t) ==
    /\ ~aborted
    /\ \E e \in NextEvents(t) :
         /\ e.kind = "unlock"
         /\ held[t] # <<>> /\ held[t][Len(held[t])] = e.lock
         /\ held' = [held EXCEPT ![t] = SubSeq(@, 1, Len(@) - 1)]
         /\ prog' = [prog EXCEPT ![t] = After(t, e)]
    /\ UNCHANGED <<dataVars, todo>>

\* the registry fields are read and written
Access(t) ==
    /\ ~aborted
    /\ \E e \in NextEvents(t) :
         /\ e.kind = "access"
         /\ prog' = [prog EXCEPT ![t] = After(t, e)]
    /\ UNCHANGED <<dataVars, held, todo>>

\* a failing assert: the process ends, whatever its threads hold
Abort(t) ==
    /\ ~aborted
    /\ \E e \in NextEvents(t) :
         /\ e.kind = "abort"
         /\ prog' = [prog EXCEPT ![t] = After(t, e)]
    /\ aborted' = TRUE
    /\ UNCHANGED <<regVars, seenVars, signVars, tryLockChainTipScheduled,
                   envVars, chainVars, timeVars, procVars, schedVars,
                   obsVars, lateHeader, txVars, held, todo>>

(* ------------------------------------------------------------------ *)
(* Specifications                                                      *)
(* ------------------------------------------------------------------ *)

\* recovered signatures the signing manager may deliver
RecoveredSigs ==
    [id : {RequestId(h) : h \in 2..3}, msgHash : {"B", "Bp", "C"}, sig : Sigs]

\* CLSIGs the peers send in runs of the whole node: the tip candidates, the
\* block after them, a height that is not its block's, and a negative height
WireClsigs ==
    {[nHeight |-> 2, blockHash |-> "B", sig |-> "s1"],
     [nHeight |-> 2, blockHash |-> "Bp", sig |-> "s1"],
     [nHeight |-> 3, blockHash |-> "C", sig |-> "s1"],
     [nHeight |-> 3, blockHash |-> "B", sig |-> "s1"],
     [nHeight |-> -2, blockHash |-> UnknownHash, sig |-> "s1"]}

\* CLSIGs whose height is one of the block tree's
TreeClsigs == {c \in Clsigs : c.nHeight >= 0}

\* the steps of a ProcessNewChainLock call on thread p after its first block
ProcessNewChainLock(p) ==
    \/ \E ok \in BOOLEAN : VerifyRecoveredSig(p, ok)
    \/ Misbehaving(p)
    \/ Commit(p)
    \/ ScheduleEnforce(p)

\* ProcessMessage / ProcessNewChainLock on one ingest thread, for CLSIGs of D
PeerIngest(p, D) ==
    \/ \E c \in D, peer \in Peers : ProcessMessage(p, c, peer)
    \/ ProcessNewChainLock(p)

\* the signing manager's thread: HandleNewRecoveredSig and the
\* ProcessNewChainLock call it makes
Listener(p) ==
    \/ \E rs \in RecoveredSigs : HandleNewRecoveredSig(p, rs)
    \/ Begin(p)
    \/ ProcessNewChainLock(p)

\* one thread that takes the peers' CLSIGs of D and the recovered signatures
IngestOf(p, D) ==
    \/ PeerIngest(p, D)
    \/ \E rs \in RecoveredSigs : HandleNewRecoveredSig(p, rs)
    \/ Begin(p)

\* the scheduler thread's steps
Scheduler ==
    \/ \E kind \in TaskKinds : RunTask(kind)
    \/ Enforce1
    \/ \E invOk \in BOOLEAN : Enforce2(invOk)
    \/ \E b \in Blocks : Enforce3(b)
    \/ Enforce4
    \/ Enforce5
    \/ CleanupCheck
    \/ \E gone \in SUBSET Txids : Cleanup(gone)
    \/ SignModes
    \/ Sign1
    \/ Sign2
    \/ Sign3
    \/ Sign4
    \/ ClearFlag

\* the validation thread's steps
Validation ==
    \/ \E b \in Blocks : UpdatedBlockTip(b)
    \/ \E b \in Blocks : AcceptedBlockHeader(b)

\* a synced masternode with enforcement and signing on
InitNode == Init /\ isEnforced /\ isSporkActive /\ fMasternodeMode /\ synced

\* that node, with no transaction announced: the message thread takes the
\* peers' CLSIGs while the signing manager's thread delivers recovered
\* signatures, the scheduler thread runs its tasks and the validation thread
\* announces headers and tips
Next ==
    \/ PeerIngest(1, WireClsigs)
    \/ Listener(2)
    \/ Scheduler
    \/ Validation
    \/ \E t \in Times : Advance(t)

Spec == InitNode /\ [][Next]_vars

\* ProcessNewChainLock called again and again by one thread, nothing else
\* running
NextSeq == PeerIngest(1, Clsigs)

SpecSeq == Init /\ [][NextSeq]_vars

\* two ingest threads inside ProcessNewChainLock at once, and the validation
\* thread announcing headers
NextIngest ==
    \/ \E p \in Procs : PeerIngest(p, TreeClsigs)
    \/ \E b \in Blocks : AcceptedBlockHeader(b)

SpecIngest == Init /\ [][NextIngest]_vars

\* a synced masternode with signing on, enforcement on or off
InitSigner == Init /\ isSporkActive /\ fMasternodeMode /\ synced

\* that node with one ingest thread and CLSIGs at heights of the block
\* tree: ProcessNewChainLock calls follow one another, the scheduler and the
\* validation thread run between them
NextLifetime ==
    \/ IngestOf(1, WireClsigs \cap TreeClsigs)
    \/ Scheduler
    \/ Validation
    \/ \E t \in Times : Advance(t)

SpecLifetime == InitSigner /\ [][NextLifetime]_vars

\* a node that has the header of Bp but not yet that of its sibling B: the
\* state of Init with B missing from the block index
InitLate == InitWith({"G", "A", "Bp"}, "Bp")

\* that node: one ingest thread fed by peers with CLSIGs on the missing
\* block, the validation thread and the scheduler thread
NextLate ==
    \/ PeerIngest(1, {c \in WireClsigs : c.blockHash = "B"})
    \/ Scheduler
    \/ Validation
    \/ \E t \in Times : Advance(t)

SpecLate == InitLate /\ [][NextLate]_vars

\* a synced masternode with enforcement on, whose block index has the two
\* tip candidates and whose active chain still ends in A
InitTx ==
    /\ InitWith({"G", "A", "B", "Bp"}, "A")
    /\ isEnforced /\ fMasternodeMode /\ synced

\* the block whose transactions are announced: the tip candidate that
\* carries one
TxBlocks == {"Bp"}

\* block hashes a caller asks the transactions of: that one, and one the
\* block index does not have
AskedBlocks == TxBlocks \cup {"C"}

\* that node with the block-tx tracker fed: the validation thread connects
\* the block and announces transactions, a caller asks for block
\* transactions, the scheduler thread runs its tasks, and peers send the
\* CLSIG of the block to one ingest thread
NextTx ==
    \/ PeerIngest(1, {c \in WireClsigs : c.blockHash = "Bp"})
    \/ Scheduler
    \/ \E b \in TxBlocks : UpdatedBlockTip(b)
    \/ \E txid \in Txids \cup {Coinbase}, b \in TxBlocks \cup {NullBlock} :
          SyncTransaction(txid, b)
    \/ \E b \in AskedBlocks : GetBlockTxs(b)
    \/ \E readOk \in BOOLEAN : GetBlockTxs_Read(readOk)
    \/ GetBlockTxs_Store
    \/ \E t \in Times : Advance(t)

SpecTx == InitTx /\ [][NextTx]_vars

\* a synced masternode with enforcement and signing on
InitLocks == InitNode

\* the calling contexts at the level of locks and field accesses; the
\* control paths cover every value of the gate flags, so the flags are not
\* read here
NextLocks ==
    \/ \E t \in Threads : \E fns \in Operations(t) : StartOp(t, fns)
    \/ \E t \in Threads : EnterFn(t)
    \/ \E t \in Threads : Acquire(t)
    \/ \E t \in Threads : Release(t)
    \/ \E t \in Threads : Access(t)
    \/ \E t \in Threads : Abort(t)

SpecLocks == InitLocks /\ [][NextLocks]_vars

(* ------------------------------------------------------------------ *)
(* Properties                                                          *)
(* ------------------------------------------------------------------ *)

\* a step in which ProcessNewChainLock assigns bestChainLock (lines 134-135)
CommitStep == Len(commits') = Len(commits) + 1

\* C1: over any sequence of ProcessNewChainLock calls, whatever the CLSIG,
\* the hash and the verifier's answer, bestChainLock.nHeight never decreases.
C1_HeightNeverDecreases ==
    [][bestChainLock'.nHeight >= bestChainLock.nHeight]_vars

\* C2: once a CLSIG of height H is committed, no later CLSIG of height <= H
\* and another block hash is committed, whatever else the handler runs in
\* between (the periodic task and CheckActiveState included).
C2_LockIsFinal ==
    \A i, j \in 1..Len(commits) :
        (i < j /\ commits[j].nHeight <= commits[i].nHeight)
            => commits[j].blockHash = commits[i].blockHash

\* C3: with ProcessNewChainLock running on several threads at once, every
\* commit stores a height above the one the registry held when it committed.
C3_CommitsStrictlyIncrease ==
    [][CommitStep =>
         (bestChainLock = NullClsig
             \/ bestChainLock'.nHeight > bestChainLock.nHeight)]_vars

\* a step in which VerifyRecoveredSig is called and answers false
VerifyFails ==
    /\ Len(verifyLog') = Len(verifyLog) + 1
    /\ ~verifyLog'[Len(verifyLog')].ok

\* C4: a CLSIG that fails verification changes no registry field, is not
\* relayed and schedules nothing; Misbehaving(from, 10) is called exactly
\* when from # -1, never for a CLSIG the node assembled itself.  Step by
\* step: the failed verification changes none of these and leads to the
\* report for a peer's CLSIG and to the return for the node's own; the report
\* is one Misbehaving(from, 10) call, after which the call returns; and
\* nothing else reports.
C4_UnverifiedChangesNothing ==
    [][/\ \A p \in Procs :
            (VerifyFails /\ pc[p] = "verify" /\ pc'[p] # "verify")
               => /\ UNCHANGED <<regVars, relayed, commits, queue,
                                 misbehaving>>
                  /\ pc'[p] = IF fromOf[p] # -1 THEN "misbehave" ELSE "idle"
       /\ \A p \in Procs :
            (pc[p] = "misbehave" /\ pc'[p] # "misbehave")
               => /\ UNCHANGED <<regVars, relayed, commits, queue>>
                  /\ fromOf[p] # -1
                  /\ misbehaving' = Append(misbehaving, <<fromOf[p], 10>>)
                  /\ pc'[p] = "idle"
       /\ misbehaving' # misbehaving
            => \E p \in Procs : pc[p] = "misbehave" /\ pc'[p] = "idle"]_vars

\* a CLSIG of the node's own failed verification and nobody was reported;
\* one of a peer's failed too and the peer was
C4_Witness ==
    /\ \E i \in 1..Len(verifyLog) : ~verifyLog[i].ok /\ verifyLog[i].from = -1
    /\ \E i \in 1..Len(verifyLog) : ~verifyLog[i].ok /\ verifyLog[i].from = 0
    /\ misbehaving = <<(<<0, 10>>)>>
    /\ commits = <<>>
    /\ \A p \in Procs : pc[p] = "idle"

\* VerifyRecoveredSig calls, and RelayInv calls, made for CLSIG hash h
VerifyCount(h) == Cardinality({i \in 1..Len(verifyLog) : verifyLog[i].hash = h})

RelayCount(h) == Cardinality({i \in 1..Len(relayed) : relayed[i] = h})

\* C5: a CLSIG hash is verified at most once, and relayed at most once, for
\* each time it enters the seen-set: a second delivery before Cleanup evicts
\* the hash triggers neither.
C5_VerifiedOncePerHash ==
    \A h \in DOMAIN calls :
        /\ VerifyCount(h) <= 1 + CountOf(evictions, h)
        /\ RelayCount(h) <= 1 + CountOf(evictions, h)

\* the same CLSIG was delivered twice with no eviction between, both calls
\* have returned, and it was verified and relayed once
C5_Witness ==
    \E h \in DOMAIN calls :
        /\ calls[h] = 2
        /\ evictions = Empty
        /\ \A p \in Procs : pc[p] = "idle"
        /\ VerifyCount(h) = 1
        /\ RelayCount(h) = 1

\* C6: every commit calls RelayInv once, with the hash that has just become
\* bestChainLockHash; a call that commits nothing relays nothing.
C6_RelayedOncePerCommit ==
    [][IF CommitStep
       THEN /\ relayed' = Append(relayed, bestChainLockHash')
            /\ bestChainLockHash' = SerializeHash(bestChainLock')
       ELSE relayed' = relayed]_vars

\* two commits, the second of a CLSIG whose block is not in the block index,
\* each relayed
C6_Witness ==
    /\ Len(commits) = 2
    /\ commits[2].blockHash \notin mapBlockIndex
    /\ bestChainLock = commits[2]
    /\ relayed = <<SerializeHash(commits[1]), SerializeHash(commits[2])>>

\* C7: bestChainLock.nHeight >= bestChainLockWithKnownBlock.nHeight in every
\* state, for either value of isEnforced and under any interleaving.
C7_BestAtLeastKnown ==
    bestChainLock.nHeight >= bestChainLockWithKnownBlock.nHeight

\* C8: when bestChainLockBlockIndex is set, its height and hash are those of
\* bestChainLockWithKnownBlock.
C8_IndexMatchesKnownBlock ==
    bestChainLockBlockIndex # NullBlock =>
        /\ nHeight(bestChainLockBlockIndex) = bestChainLockWithKnownBlock.nHeight
        /\ GetBlockHash(bestChainLockBlockIndex)
               = bestChainLockWithKnownBlock.blockHash

\* the index is bound to the known-block CLSIG while a later CLSIG, whose
\* height is not its block's, is the best one
C8_Witness ==
    /\ bestChainLockBlockIndex # NullBlock
    /\ bestChainLock # bestChainLockWithKnownBlock
    /\ bestChainLock.blockHash \in mapBlockIndex
    /\ nHeight(bestChainLock.blockHash) # bestChainLock.nHeight

\* C9: the registry never holds two CLSIGs of one height and different block
\* hashes, and a verified CLSIG whose height the registry pins to another
\* hash is rejected, also when the calls overlap and when the pinned block is
\* not in the block index.
C9_OneHashPerHeight ==
    /\ [](bestChainLock.nHeight = bestChainLockWithKnownBlock.nHeight
            => bestChainLock.blockHash = bestChainLockWithKnownBlock.blockHash)
    /\ [][CommitStep =>
            ~(/\ bestChainLock.nHeight = bestChainLock'.nHeight
              /\ bestChainLock.blockHash # bestChainLock'.blockHash)]_vars

\* heights and block hashes the queries are asked about
QueryHeights == {-1, 0, 1, 2, 3, 4}

QueryHashes == Blocks \cup {UnknownHash}

\* C10: when HasChainLock(H, A) is true, HasConflictingChainLock(H, B) is
\* true for every B # A and false for A; the two are never both true (for
\* one height and hash HasChainLock true means HasConflictingChainLock
\* answers false, neither true nor the abort).
C10_QueriesAgree ==
    \A h \in QueryHeights, a \in QueryHashes :
        HasChainLock(h, a) =>
            /\ \A b \in QueryHashes \ {a} :
                  HasConflictingChainLock(h, b) = "true"
            /\ HasConflictingChainLock(h, a) = "false"
            /\ HasConflictingChainLock(h, a) # "true"

\* the lock is on C: C is locked at its height, B and A below it are locked,
\* and Bp conflicts
C10_Witness ==
    /\ HasChainLock(3, "C")
    /\ HasChainLock(2, "B")
    /\ HasChainLock(1, "A")
    /\ HasConflictingChainLock(2, "Bp") = "true"
    /\ HasConflictingChainLock(3, "C") = "false"

\* C11: in any run (any number of EnforceBestChainLock executions, resets by
\* CheckActiveState between them, locks on different blocks) NotifyChainLock
\* is emitted at most once for a block index entry, and only for an entry
\* that is the active tip's ancestor at its height when the run decides the
\* notification under cs_main.
C11_NotifiedOncePerBlock ==
    /\ [](\A b \in DOMAIN notified : notified[b] <= 1)
    /\ [][\A b \in Blocks :
            CountOf(notified', b) > CountOf(notified, b)
                => spc = "Enforce5" /\ locals.pindex = b]_vars
    /\ [][(spc = "Enforce4" /\ spc' = "Enforce5")
            => GetAncestor(chainTip, nHeight(locals.pindex))
                  = locals.pindex]_vars

\* the CLSIG {2, B} of the scenarios
ClsigB == [nHeight |-> 2, blockHash |-> "B", sig |-> "s1"]

\* C12: enforcement on, active chain on Bp, B known.  After ProcessNewChainLock
\* has accepted the verified CLSIG {2, B}, the task it scheduled
\* (CheckActiveState, EnforceBestChainLock) invalidates Bp, calls
\* ActivateBestChain and emits NotifyChainLock(B); when it is over,
\* bestChainLock is still {2, B}, HasChainLock(2, B) and
\* HasConflictingChainLock(2, Bp) are true.
C12_AcceptAndEnforce ==
    [][(/\ task = "enforce" /\ task' = "none"
        /\ isEnforced
        /\ commits = <<ClsigB>>
        /\ "C" \notin mapBlockIndex)
       => (/\ "Bp" \in invalidated'
           /\ activations' >= 1
           /\ CountOf(notified', "B") = 1
           /\ bestChainLock' = ClsigB
           /\ HasChainLock(2, "B")'
           /\ HasConflictingChainLock(2, "Bp")' = "true")]_vars

\* a step in which ProcessNewChainLock is entered with CLSIG c
CallOf(c) ==
    CountOf(calls', SerializeHash(c)) = CountOf(calls, SerializeHash(c)) + 1

\* the registry holds an accepted lock whose block is known, at the height
\* of c and on another block, and c has not been received before
ConflictsWithLock(c) ==
    /\ bestChainLockBlockIndex # NullBlock
    /\ bestChainLock = bestChainLockWithKnownBlock
    /\ c.nHeight = bestChainLock.nHeight
    /\ c.blockHash # bestChainLock.blockHash
    /\ SerializeHash(c) \notin DOMAIN seenChainLocks

\* C13 as stated: with a lock {2, B} on a known block in the registry, a call
\* with a new, validly signed CLSIG {2, Bp} reaches VerifyRecoveredSig (and is
\* rejected only afterwards, by the conflict check).
C13_ConflictReachesVerify ==
    [][calls' # calls =>
         \A c \in Clsigs :
           (CallOf(c) /\ ConflictsWithLock(c))
              => \E p \in Procs : pc'[p] = "verify" /\ clsigOf'[p] = c]_vars

\* C13 as the code has it: such a call is dropped by the height filter, before
\* verification: VerifyRecoveredSig is not called for it, the registry is
\* unchanged and nothing is relayed.
C13_ConflictDroppedByFilter ==
    [][calls' # calls =>
         \A c \in Clsigs :
           (CallOf(c) /\ ConflictsWithLock(c))
              => /\ \A p \in Procs : pc'[p] = "verify" => pc[p] = "verify"
                 /\ verifyLog' = verifyLog
                 /\ relayed' = relayed
                 /\ UNCHANGED regVars]_vars

\* the lock {2, B} is in the registry, {2, Bp} has been received after it and
\* the call has returned without a verification
C13_Witness ==
    LET h == SerializeHash([nHeight |-> 2, blockHash |-> "Bp", sig |-> "s1"]) IN
    /\ bestChainLock = ClsigB
    /\ bestChainLockBlockIndex = "B"
    /\ commits = <<ClsigB>>
    /\ CountOf(calls, h) = 1
    /\ \A i \in 1..Len(verifyLog) : verifyLog[i].hash # h
    /\ \A p \in Procs : pc[p] = "idle"

\* a step in which thread p runs the commit block of a ProcessNewChainLock
\* call, which only a CLSIG that passed VerifyRecoveredSig reaches
VerifiedStep(p) ==
    /\ pc[p] = "commit"
    /\ pc'[p] # "commit"

\* the CLSIG names an entry of the block index at another height
HeightMismatch(c) ==
    /\ c.blockHash \in mapBlockIndex
    /\ nHeight(c.blockHash) # c.nHeight

\* C14: a verified CLSIG whose block is in the block index at a height other
\* than the CLSIG's, and a late header with the hash of bestChainLock at a
\* height other than bestChainLock's, leave bestChainLock, bestChainLockHash,
\* bestChainLockWithKnownBlock and bestChainLockBlockIndex as they were
C14_MismatchLeavesBestLock ==
    [][/\ \A p \in Procs :
            (VerifiedStep(p) /\ HeightMismatch(clsigOf[p]))
               => UNCHANGED bestVars
       /\ \A b \in Blocks :
            (/\ b \notin mapBlockIndex
             /\ b \in mapBlockIndex'
             /\ GetBlockHash(b) = bestChainLock.blockHash
             /\ nHeight(b) # bestChainLock.nHeight)
               => UNCHANGED bestVars]_vars

\* the header of block b reaches the block index in this step
HeaderStep(b) == b \notin mapBlockIndex /\ b \in mapBlockIndex'

\* the scheduler thread's positions inside EnforceBestChainLock
EnforceSteps == {"Enforce1", "Enforce2", "Enforce3", "Enforce4", "Enforce5"}

\* EnforceBestChainLock returns in this step
EnforceReturns == spc \in EnforceSteps /\ spc' \notin EnforceSteps /\ ~aborted'

\* C15: scenario S4 on the node that lacks B. A verified CLSIG {2, B} accepted
\* while B is not in the block index sets bestChainLock, leaves
\* bestChainLockBlockIndex null and invalidates nothing; the header of B then
\* binds bestChainLockBlockIndex and bestChainLockWithKnownBlock; and when the
\* EnforceBestChainLock call of the next periodic task (the task that started
\* with the registry so bound, no other CLSIG having been accepted) returns,
\* B's sibling Bp has been invalidated, unless the active chain is on B
C15_LateHeader ==
    /\ [][(VerifiedStep(1) /\ clsigOf[1] = ClsigB /\ commits = <<>>
           /\ "B" \notin mapBlockIndex)
          => (/\ bestChainLock' = ClsigB
              /\ bestChainLockBlockIndex' = NullBlock
              /\ invalidated' = invalidated)]_vars
    /\ [][(HeaderStep("B") /\ bestChainLock = ClsigB)
          => (/\ bestChainLockBlockIndex' = "B"
              /\ bestChainLockWithKnownBlock' = ClsigB)]_vars
    /\ [][(/\ EnforceReturns
           /\ task = "tick"
           /\ lateHeader = "tick"
           /\ isEnforced
           /\ commits = <<ClsigB>>)
          => ("Bp" \in invalidated' \/ Contains(chainTip', "B"))]_vars

\* AsyncSignIfMember is called for height h in this step
SignStep(h) == CountOf(signCalls', h) > CountOf(signCalls, h)

C17_SignsOnlySafeTips ==
    [][\A h \in 0..3 :
         (SignStep(h) /\ isSporkActive)
            => \A txid \in BlockTxids(locals.tip) : IsTxSafeForMining(txid)]_vars

\* zero-delay tasks of UpdatedBlockTip that are queued or running
TipTasks == queue.tip + (IF task = "tip" THEN 1 ELSE 0)

\* C18: at most one task queued by UpdatedBlockTip is pending or running, and
\* tryLockChainTipScheduled is true exactly while there is one: from the call
\* that queues it to the end of its body
C18_OneTipTask ==
    /\ TipTasks <= 1
    /\ tryLockChainTipScheduled <=> (TipTasks = 1)

\* the task UpdatedBlockTip queued when the tip moved to C is about to clear
\* the flag
C18_Witness ==
    /\ chainTip = "C"
    /\ task = "tip"
    /\ spc = "ClearFlag"
    /\ tryLockChainTipScheduled
    /\ queue.tip = 0

\* position of the first l among the locks thread t holds
FirstHeld(t, l) ==
    CHOOSE i \in 1..Len(held[t]) :
        held[t][i] = l /\ \A j \in 1..(i - 1) : held[t][j] # l

\* thread t waits for lock l, which another thread holds
WaitsFor(t, l) ==
    /\ \E e \in NextEvents(t) : e.kind = "lock" /\ e.lock = l
    /\ Holders(l) \ {t} # {}

\* two threads each hold one of cs_main and cs and wait for the other
LockCycle ==
    \E t, u \in Threads :
        /\ t # u
        /\ Holds(t, "cs_main") /\ WaitsFor(t, "cs")
        /\ Holds(u, "cs") /\ WaitsFor(u, "cs_main")

C20_RegistryUnderCs ==
    /\ \A t \in Threads : At(t, "access") => Holds(t, "cs")
    /\ \A t, u \in Threads : \A e \in NextEvents(t), f \in NextEvents(u) :
         (t # u /\ e.kind = "access" /\ f.kind = "access")
            => e.writes \cap (f.reads \cup f.writes) = {}

\* the recovered signature is the one the signer is waiting for, and no
\* CLSIG of that height or above is known yet
Pending(rs) ==
    /\ isSporkActive
    /\ rs.id = lastSignedRequestId
    /\ rs.msgHash = lastSignedMsgHash
    /\ bestChainLock.nHeight < lastSignedHeight

\* C21: HandleNewRecoveredSig hands a CLSIG to ProcessNewChainLock, with
\* from = -1, only for a recovered signature that is pending, and the CLSIG
\* is {lastSignedHeight, lastSignedMsgHash, recoveredSig.sig}; for any other
\* recovered signature it starts no ProcessNewChainLock call; either way the
\* listener itself changes no handler state, relays nothing and reports no
\* misbehaviour; and the ProcessNewChainLock call that follows is for the
\* hash of that CLSIG and never reports misbehaviour
C21_ListenerFeedsOnlyPending ==
    [][/\ \A p \in Procs, rs \in RecoveredSigs :
            HandleNewRecoveredSig(p, rs)
               => /\ UNCHANGED <<regVars, seenVars, signVars, txVars,
                                 tryLockChainTipScheduled, relayed,
                                 misbehaving, calls>>
                  /\ IF Pending(rs)
                     THEN /\ pc'[p] = "begin"
                          /\ clsigOf'[p] = [nHeight |-> lastSignedHeight,
                                            blockHash |-> lastSignedMsgHash,
                                            sig |-> rs.sig]
                          /\ fromOf'[p] = -1
                     ELSE /\ pc' = pc
                          /\ clsigOf' = clsigOf
                          /\ fromOf' = fromOf
       /\ \A p \in Procs :
            (pc[p] = "begin" /\ pc'[p] # "begin")
               => /\ fromOf[p] = -1
                  /\ CountOf(calls', SerializeHash(clsigOf[p]))
                        = CountOf(calls, SerializeHash(clsigOf[p])) + 1
       /\ \A p \in Procs :
            (pc[p] = "verify" /\ pc'[p] # "verify" /\ fromOf[p] = -1)
               => /\ misbehaving' = misbehaving
                  /\ pc'[p] # "misbehave"]_vars

\* the signer asked for a signature on the tip at height 2, the recovered
\* signature came back, and the CLSIG built from it passed the filters of
\* ProcessNewChainLock and was committed as the best lock
C21_Witness ==
    /\ lastSignedHeight = 2
    /\ bestChainLock.nHeight = 2
    /\ bestChainLock.blockHash = lastSignedMsgHash
    /\ Len(verifyLog) = 1
    /\ verifyLog[1].from = -1
    /\ verifyLog[1].ok
    /\ misbehaving = <<>>

\* the scheduler thread runs the block of EnforceBestChainLock that walks
\* back from the locked block, to its end or to a failed assert
EnforceStep == spc = "Enforce2" /\ (spc' = "Enforce3" \/ aborted')

\* the blocks from b back to, and without, the first one on the active chain
\* ending in tip
OffChainPath(tip, b) == {x \in Ancestors(b) : ~Contains(tip, x)}

\* the other children of the predecessors along that path
CompetingBlocks(tip, b) == UNION {Siblings(x) : x \in OffChainPath(tip, b)}

\* C22: in every EnforceBestChainLock run the blocks passed to
\* DoInvalidateBlock are exactly the siblings of the blocks on the path from
\* the locked block (bestChainLockBlockIndex as the run read it under cs)
\* back to, and without, the first block on the active chain, or the first
\* of them when the process aborts in DoInvalidateBlock; none of them is the
\* locked block or one of its ancestors, no block of the locked branch gets a
\* failure flag, and none has one when the walk is over; siblings of blocks
\* at or below the first block on the active chain are not invalidated
C22_EnforcerSparesLockedBranch ==
    [][EnforceStep =>
         LET cur == locals.pindex
             passed == invalidated' \ invalidated
         IN
         /\ IF aborted'
            THEN passed \subseteq CompetingBlocks(chainTip, cur)
            ELSE invalidated' =
                    invalidated \cup CompetingBlocks(chainTip, cur)
         /\ CompetingBlocks(chainTip, cur) \cap Ancestors(cur) = {}
         /\ (failed' \ failed) \cap Ancestors(cur) = {}
         /\ ~aborted' => failed' \cap Ancestors(cur) = {}
         /\ \A x \in Ancestors(cur) :
              Contains(chainTip, x) => Siblings(x) \cap passed = {}]_vars

\* the lock is on Bp while the active chain ran over B to C: the run has
\* invalidated B, the sibling of Bp, which took C with it and cut the active
\* chain back to A, and has not yet activated the locked branch
C22_Witness ==
    /\ spc = "Enforce3"
    /\ locals.pindex = "Bp"
    /\ invalidated = {"B"}
    /\ {"B", "C"} \subseteq failed
    /\ chainTip = "A"
    /\ locals.activateNeeded

====
